---- MODULE Spec2Model ----
(***************************************************************************)
(* Tabular transformation engine of monkey_business: the three front ends  *)
(* of the repository (react/flask-server, react2/flask-server, streamlit)  *)
(* and the transformation functions they share.                           *)
(*                                                                         *)
(* A cell value is a tagged tuple:                                         *)
(*   <<"null">>            NaN / missing                                   *)
(*   <<"num", p, q>>       the rational p/q in lowest terms, q > 0         *)
(*   <<"str", s>>          a string                                        *)
(*   <<"log", p, q>>       numpy.log(p/q)                                  *)
(*   <<"log1p", p, q>>     numpy.log1p(p/q)                                *)
(*   <<"sqrt", p, q>>      numpy.sqrt(p/q)                                 *)
(*   <<"z", sgn, p, q>>    sgn * sqrt(p/q), a standardised value           *)
(* A pandas Series is [idx, vals, dtype]; idx holds the row labels.        *)
(* A pandas DataFrame is [idx, cols] with cols a sequence of               *)
(* [name, dtype, vals] (ordered, duplicate names possible).                *)
(***************************************************************************)
EXTENDS Integers, Sequences, FiniteSets, TLC

VARIABLES
    \* react2/flask-server: the DataProcessor behind /upload and /transform
    current_df,      \* DataProcessor.current_df
    original_df,     \* DataProcessor.original_df
    r2_loaded,       \* the dataset parsed by the last successful load_data
    r2_resp,         \* outcome of the last request: [op, ok]
    r2_ops,          \* requests handled so far
    r2_loads,        \* successful uploads so far
    \* react/flask-server: the module-level DataFrame behind /api/*
    g_current_df,    \* server.current_df (global)
    g_resp,          \* outcome of the last request: [op, ok]
    g_ops,           \* requests handled so far
    \* streamlit: st.session_state
    raw_data,
    transformed_data,
    available_columns,
    raw_numeric_attrs,
    raw_object_attrs,
    change_log,
    pending_log,     \* TransformationRegistry._pending_log
    st_uploaded,     \* the dataset read from the uploaded file
    st_click,        \* the widget handled by the last script run
    st_ops,          \* script runs so far
    \* one chunked run of DataProcessor._apply_transformation on a thread pool
    ex_data,         \* the column (data)
    ex_transformation,
    ex_pc,           \* "idle", "running", "raising", "done"
    ex_queue,        \* chunk numbers submitted and not yet picked up
    ex_running,      \* chunk numbers a worker thread is processing
    ex_futures,      \* chunk number -> result of its future
    ex_completed,    \* chunk numbers in the order their futures completed
    ex_out,          \* what _apply_transformation returned or raised
    \* one call of a transformation function on one column
    fn_data,
    fn_pc,
    fn_out,
    \* react2_backup2/flask-server: the earlier DataProcessor
    b2_current_df,   \* DataProcessor.current_df
    b2_original_df,  \* DataProcessor.original_df
    b2_resp,         \* outcome of the last request: [op, ok]
    b2_ops,          \* requests handled so far
    \* react/flask-server with two /api/transform requests in flight at once
    cc_heap,         \* DataFrame objects: object id -> DataFrame
    cc_global,       \* server.current_df (global): the object it refers to
    cc_thr,          \* request thread -> [column, transformation, pc, ret]
    cc_loaded        \* the dataset as uploaded, before the two requests

r2vars == <<current_df, original_df, r2_loaded, r2_resp, r2_ops, r2_loads>>
r1vars == <<g_current_df, g_resp, g_ops>>
stvars == <<raw_data, transformed_data, available_columns, raw_numeric_attrs,
            raw_object_attrs, change_log, pending_log, st_uploaded, st_click, st_ops>>
exvars == <<ex_data, ex_transformation, ex_pc, ex_queue, ex_running, ex_futures,
            ex_completed, ex_out>>
fnvars == <<fn_data, fn_pc, fn_out>>
b2vars == <<b2_current_df, b2_original_df, b2_resp, b2_ops>>
ccvars == <<cc_heap, cc_global, cc_thr, cc_loaded>>
vars == <<r2vars, r1vars, stvars, exvars, fnvars, b2vars, ccvars>>
\* each front end runs on its own: the state of the others stays put
R2Frame == UNCHANGED <<r1vars, stvars, exvars, fnvars, b2vars, ccvars>>
R1Frame == UNCHANGED <<r2vars, stvars, exvars, fnvars, b2vars, ccvars>>
STFrame == UNCHANGED <<r2vars, r1vars, exvars, fnvars, b2vars, ccvars>>
ExFrame == UNCHANGED <<r2vars, r1vars, stvars, fnvars, b2vars, ccvars>>
FnFrame == UNCHANGED <<r2vars, r1vars, stvars, exvars, b2vars, ccvars>>
B2Frame == UNCHANGED <<r2vars, r1vars, stvars, exvars, fnvars, ccvars>>
CCFrame == UNCHANGED <<r2vars, r1vars, stvars, exvars, fnvars, b2vars>>

\* ------------------------------------------------------------------ bounds
\* rows of an uploaded file
MaxRows == 3
\* longest column handed to a transformation function on its own
MaxLen == 5
\* requests a front end handles in one run
MaxOps == 3
\* successful uploads in one run
MaxLoads == 2
\* uploads and button clicks of a Streamlit session
MaxClicks == 4

\* ------------------------------------------------------------ cell values
Null == <<"null">>
IsNull(v) == v[1] = "null"
IsNum(v) == v[1] = "num"
IsStr(v) == v[1] = "str"
Str(s) == <<"str", s>>

Abs(n) == IF n < 0 THEN -n ELSE n

RECURSIVE GCD(_, _)
GCD(a, b) == IF b = 0 THEN a ELSE GCD(b, a % b)

\* the rational p/q (q # 0) in lowest terms
Rat(p, q) ==
    LET g == GCD(Abs(p), Abs(q))
        s == IF q < 0 THEN -1 ELSE 1
    IN  <<"num", (s * p) \div g, (s * q) \div g>>
Num(n) == <<"num", n, 1>>

RAdd(a, b) == Rat(a[2] * b[3] + b[2] * a[3], a[3] * b[3])
RSub(a, b) == Rat(a[2] * b[3] - b[2] * a[3], a[3] * b[3])
RMul(a, b) == Rat(a[2] * b[2], a[3] * b[3])
RDiv(a, b) == Rat(a[2] * b[3], a[3] * b[2])
RLess(a, b) == a[2] * b[3] < b[2] * a[3]
RLeq(a, b) == a[2] * b[3] <= b[2] * a[3]

\* ------------------------------------------------------- sequence helpers
SeqMap(F(_), s) == [i \in 1..Len(s) |-> F(s[i])]
Range(s) == {s[i] : i \in DOMAIN s}
NonNull(s) == SelectSeq(s, LAMBDA v : ~IsNull(v))

RECURSIVE RSum(_)
RSum(s) == IF s = <<>> THEN Num(0) ELSE RAdd(Head(s), RSum(Tail(s)))

RECURSIVE Insert(_, _)
Insert(v, s) ==
    IF s = <<>> THEN <<v>>
    ELSE IF RLeq(v, Head(s)) THEN <<v>> \o s
    ELSE <<Head(s)>> \o Insert(v, Tail(s))

RECURSIVE RSort(_)
RSort(s) == IF s = <<>> THEN <<>> ELSE Insert(Head(s), RSort(Tail(s)))

RECURSIVE Concat(_)
Concat(ss) == IF ss = <<>> THEN <<>> ELSE Head(ss) \o Concat(Tail(ss))

\* strings the model knows, in lexicographic order
StrOrder == <<"a", "b", "c", "d", "e", "f", "g", "h", "i", "j", "k">>
StrPos(s) == CHOOSE i \in DOMAIN StrOrder : StrOrder[i] = s

\* ---------------------------------------------------------------- Series
Series(idx, vals, dtype) == [idx |-> idx, vals |-> vals, dtype |-> dtype]
\* positional slice data[a:b] (0-based, end exclusive)
Slice(s, a, b) ==
    LET hi == IF b < Len(s.vals) THEN b ELSE Len(s.vals)
    IN  Series(SubSeq(s.idx, a + 1, hi), SubSeq(s.vals, a + 1, hi), s.dtype)
\* pandas.concat of a sequence of Series
ConcatDtype(ss) ==
    IF \A i \in DOMAIN ss : ss[i].dtype = ss[1].dtype THEN ss[1].dtype
    ELSE IF \A i \in DOMAIN ss : ss[i].dtype \in {"int64", "float64"} THEN "float64"
    ELSE "object"
PdConcat(ss) ==
    Series(Concat(SeqMap(LAMBDA s : s.idx, ss)),
           Concat(SeqMap(LAMBDA s : s.vals, ss)),
           ConcatDtype(ss))

Ok(s) == [ok |-> TRUE, series |-> s]
Err(e) == [ok |-> FALSE, error |-> e]

\* --------------------------------------------------- numpy / sklearn parts
\* values the arithmetic below is exact on
IsRatSeq(vals) == \A i \in DOMAIN vals : IsNull(vals[i]) \/ IsNum(vals[i])
HasStr(vals) == \E i \in DOMAIN vals : IsStr(vals[i])

\* sort key of str(v), the way Series.astype(str) prints it ('nan' for NaN):
\* '-1' < '-2' < '0' < '1' < ... < 'a' < 'b' < 'c' < 'nan'
StrKey(v) ==
    IF IsNull(v) THEN 300
    ELSE IF IsStr(v) THEN 200 + StrPos(v[2])
    ELSE IF v[2] < 0 THEN -v[2] ELSE 100 + v[2]
HasStrKey(v) == IsNull(v) \/ IsStr(v) \/ (IsNum(v) /\ v[3] = 1 /\ Abs(v[2]) <= 9)

\* sklearn LabelEncoder.fit_transform on keys: index into the sorted uniques
LabelCode(k, keys) == Cardinality({j \in keys : j < k})
LabelEncoderFitTransform(vals) ==
    LET keys == {StrKey(vals[i]) : i \in DOMAIN vals}
    IN  [i \in DOMAIN vals |-> Num(LabelCode(StrKey(vals[i]), keys))]

Mean(nn) == RDiv(RSum(nn), Num(Len(nn)))
\* population variance, as sklearn's StandardScaler computes it
Var(nn) ==
    LET m == Mean(nn)
    IN  RDiv(RSum([i \in DOMAIN nn |-> RMul(RSub(nn[i], m), RSub(nn[i], m))]), Num(Len(nn)))
Median(nn) ==
    LET s == RSort(nn)
        n == Len(s)
    IN  IF n % 2 = 1 THEN s[(n + 1) \div 2]
        ELSE RDiv(RAdd(s[n \div 2], s[n \div 2 + 1]), Num(2))

\* (x - mean) / scale with scale = sqrt(var), and scale = 1 when var = 0
ZScore(x, m, v) ==
    LET d == RSub(x, m)
    IN  IF v = Num(0) \/ d = Num(0) THEN d
        ELSE LET sq == RDiv(RMul(d, d), v)
             IN  <<"z", IF d[2] < 0 THEN -1 ELSE 1, sq[2], sq[3]>>
StandardScalerFitTransform(vals) ==
    LET nn == NonNull(vals)
    IN  IF nn = <<>> THEN vals
        ELSE [i \in DOMAIN vals |->
                 IF IsNull(vals[i]) THEN Null ELSE ZScore(vals[i], Mean(nn), Var(nn))]

\* (x - min) * scale with scale = 1 / (max - min), and scale = 1 when max = min
MinMaxScalerFitTransform(vals) ==
    LET nn == RSort(NonNull(vals))
    IN  IF nn = <<>> THEN vals
        ELSE LET mn == nn[1]
                 rg == RSub(nn[Len(nn)], mn)
             IN  [i \in DOMAIN vals |->
                     IF IsNull(vals[i]) THEN Null
                     ELSE IF rg = Num(0) THEN RSub(vals[i], mn)
                     ELSE RDiv(RSub(vals[i], mn), rg)]

\* ------------------------------------- react2/flask-server/data_processor
\* CHUNK_SIZE is 10000 in the source; the model scales it down so that a
\* column of MaxRows..MaxLen rows is "large".
CHUNK_SIZE == 2
N_WORKERS == 2

\* transformation names a request can carry ('cube' is not in the catalog)
Transformations ==
    {"log", "sqrt", "standard", "minmax", "label_encoding", "dropna",
     "fillna_mean", "fillna_median", "one_hot_encoding", "cube"}
ChunkedTransformations == {"log", "sqrt", "standard", "minmax", "label_encoding", "cube"}

\* DataProcessor._process_chunk
_process_chunk(chunk, column, transformation) ==
    CASE transformation = "log" ->
           IF chunk.dtype = "object" THEN Err("TypeError")
           ELSE IF \E i \in DOMAIN chunk.vals :
                      ~IsNull(chunk.vals[i]) /\ RLeq(chunk.vals[i], Num(0))
                THEN Err("Log transformation requires positive values")
           ELSE Ok(Series(chunk.idx,
                          [i \in DOMAIN chunk.vals |->
                              IF IsNull(chunk.vals[i]) THEN Null
                              ELSE <<"log", chunk.vals[i][2], chunk.vals[i][3]>>],
                          "float64"))
      [] transformation = "sqrt" ->
           IF chunk.dtype = "object" THEN Err("TypeError")
           ELSE IF \E i \in DOMAIN chunk.vals :
                      ~IsNull(chunk.vals[i]) /\ RLess(chunk.vals[i], Num(0))
                THEN Err("Square root transformation requires non-negative values")
           ELSE Ok(Series(chunk.idx,
                          [i \in DOMAIN chunk.vals |->
                              IF IsNull(chunk.vals[i]) THEN Null
                              ELSE <<"sqrt", chunk.vals[i][2], chunk.vals[i][3]>>],
                          "float64"))
      [] transformation = "standard" ->
           IF HasStr(chunk.vals) THEN Err("could not convert string to float")
           ELSE Ok(Series(chunk.idx, StandardScalerFitTransform(chunk.vals), "float64"))
      [] transformation = "minmax" ->
           IF HasStr(chunk.vals) THEN Err("could not convert string to float")
           ELSE Ok(Series(chunk.idx, MinMaxScalerFitTransform(chunk.vals), "float64"))
      [] transformation = "label_encoding" ->
           Ok(Series(chunk.idx, LabelEncoderFitTransform(chunk.vals), "int64"))
      [] OTHER -> Ok(chunk)

\* data[i:i + CHUNK_SIZE] for i in range(0, len(data), CHUNK_SIZE)
NumChunks(data) == (Len(data.vals) + CHUNK_SIZE - 1) \div CHUNK_SIZE
Chunks(data) ==
    [k \in 1..NumChunks(data) |-> Slice(data, (k - 1) * CHUNK_SIZE, k * CHUNK_SIZE)]

\* list(executor.map(...)): results in the order of the chunks; the first
\* failed chunk in that order re-raises when the list is built
ExecutorMap(results) ==
    IF \E k \in DOMAIN results : ~results[k].ok
    THEN results[CHOOSE k \in DOMAIN results :
                     ~results[k].ok /\ \A j \in 1..(k - 1) : results[j].ok]
    ELSE Ok(PdConcat([k \in DOMAIN results |-> results[k].series]))

\* the tail of DataProcessor._apply_transformation: chunked when the column
\* is longer than CHUNK_SIZE, in one piece otherwise
ProcessInChunks(data, column, transformation) ==
    ExecutorMap([k \in 1..NumChunks(data) |->
                    _process_chunk(Chunks(data)[k], column, transformation)])
ProcessColumn(data, column, transformation) ==
    IF Len(data.vals) > CHUNK_SIZE
    THEN ProcessInChunks(data, column, transformation)
    ELSE _process_chunk(data, column, transformation)

\* ------------------------------------------------------------- DataFrame
DataFrame(idx, cols) == [idx |-> idx, cols |-> cols]
Column(name, dtype, vals) == [name |-> name, dtype |-> dtype, vals |-> vals]
ColNames(df) == [i \in DOMAIN df.cols |-> df.cols[i].name]
HasCol(df, name) == \E i \in DOMAIN df.cols : df.cols[i].name = name
ColPos(df, name) ==
    CHOOSE i \in DOMAIN df.cols :
        df.cols[i].name = name /\ \A j \in 1..(i - 1) : df.cols[j].name # name
\* df[name]
GetCol(df, name) ==
    Series(df.idx, df.cols[ColPos(df, name)].vals, df.cols[ColPos(df, name)].dtype)
\* the values of a Series re-indexed to the labels idx (NaN where absent)
Align(s, idx) ==
    [i \in DOMAIN idx |->
        IF \E j \in DOMAIN s.idx : s.idx[j] = idx[i]
        THEN s.vals[CHOOSE j \in DOMAIN s.idx : s.idx[j] = idx[i]]
        ELSE Null]
AlignDtype(s, idx) ==
    IF s.dtype = "int64" /\ \E i \in DOMAIN idx : \A j \in DOMAIN s.idx : s.idx[j] # idx[i]
    THEN "float64" ELSE s.dtype
\* df[name] = s : replaces the column in place, or appends it
SetCol(df, name, s) ==
    LET c == Column(name, AlignDtype(s, df.idx), Align(s, df.idx))
    IN  IF HasCol(df, name)
        THEN DataFrame(df.idx, [df.cols EXCEPT ![ColPos(df, name)] = c])
        ELSE DataFrame(df.idx, Append(df.cols, c))
\* df.loc[labels]
Loc(df, labels) ==
    LET keep == {i \in DOMAIN df.idx : \E j \in DOMAIN labels : labels[j] = df.idx[i]}
        Pick(s) == SelectSeq([i \in DOMAIN s |-> <<i, s[i]>>], LAMBDA e : e[1] \in keep)
        Vals(s) == [i \in DOMAIN Pick(s) |-> Pick(s)[i][2]]
    IN  DataFrame(Vals(df.idx),
                  [c \in DOMAIN df.cols |->
                      Column(df.cols[c].name, df.cols[c].dtype, Vals(df.cols[c].vals))])
\* df.drop(columns=names)
DropCols(df, names) ==
    DataFrame(df.idx, SelectSeq(df.cols, LAMBDA c : c.name \notin names))
IsNumericDtype(dtype) == dtype \in {"int64", "float64", "bool"}

\* str(category) inside an f-string
Fmt(v, dtype) ==
    IF IsNull(v) THEN "nan"
    ELSE IF IsStr(v) THEN v[2]
    ELSE IF dtype = "int64" THEN ToString(v[2])
    ELSE ToString(v[2]) \o ".0"

\* data.unique() without the dropna(): NaN becomes a category
RECURSIVE UniqueKeepsNull(_)
UniqueKeepsNull(vals) ==
    IF vals = <<>> THEN <<>>
    ELSE LET u == UniqueKeepsNull(SubSeq(vals, 1, Len(vals) - 1))
             v == vals[Len(vals)]
         IN  IF v \in Range(u) THEN u ELSE Append(u, v)
\* data.dropna().unique(): the distinct non-null values by first appearance
RECURSIVE Unique(_)
Unique(vals) ==
    IF vals = <<>> THEN <<>>
    ELSE LET u == Unique(SubSeq(vals, 1, Len(vals) - 1))
             v == vals[Len(vals)]
         IN  IF IsNull(v) \/ v \in Range(u) THEN u ELSE Append(u, v)

\* one result column of the one-hot loop: (data == category).astype(int)
OneHotColumn(data, category) ==
    [i \in DOMAIN data.vals |-> IF data.vals[i] = category THEN Num(1) ELSE Num(0)]
\* the one_hot_encoding branch of DataProcessor._apply_transformation
RECURSIVE OneHotLoop(_, _, _, _)
OneHotLoop(result, data, column, categories) ==
    IF categories = <<>> THEN result
    ELSE OneHotLoop(SetCol(result, column \o "_" \o Fmt(Head(categories), data.dtype),
                           Series(data.idx, OneHotColumn(data, Head(categories)), "int64")),
                    data, column, Tail(categories))
OneHotEncoding(data, column) ==
    OneHotLoop(DataFrame(data.idx, <<>>), data, column, Unique(data.vals))

\* DataProcessor._apply_transformation(column, transformation) on current_df
\* df: the value it returns or the error it raises, and current_df afterwards
_apply_transformation(df, column, transformation) ==
    LET data == GetCol(df, column)
        Wrap(e) == "Error in transformation '" \o transformation \o "': " \o e
    IN  CASE transformation = "dropna" ->
               LET valid_indices ==
                       SeqMap(LAMBDA e : e[1],
                              SelectSeq([i \in DOMAIN data.idx |-> <<data.idx[i], data.vals[i]>>],
                                        LAMBDA e : ~IsNull(e[2])))
                   after == Loc(df, valid_indices)
               IN  [ok |-> TRUE, frame |-> FALSE, value |-> GetCol(after, column),
                    current_df |-> after]
          [] transformation = "fillna_mean" ->
               IF HasStr(data.vals)
               THEN [ok |-> FALSE, error |-> Wrap("TypeError"), current_df |-> df]
               ELSE LET nn == NonNull(data.vals)
                        filled == [i \in DOMAIN data.vals |->
                                      IF IsNull(data.vals[i]) /\ nn # <<>>
                                      THEN Mean(nn) ELSE data.vals[i]]
                    IN  [ok |-> TRUE, frame |-> FALSE,
                         value |-> Series(data.idx, filled, data.dtype), current_df |-> df]
          [] transformation = "fillna_median" ->
               IF HasStr(data.vals)
               THEN [ok |-> FALSE, error |-> Wrap("TypeError"), current_df |-> df]
               ELSE LET nn == NonNull(data.vals)
                        filled == [i \in DOMAIN data.vals |->
                                      IF IsNull(data.vals[i]) /\ nn # <<>>
                                      THEN Median(nn) ELSE data.vals[i]]
                    IN  [ok |-> TRUE, frame |-> FALSE,
                         value |-> Series(data.idx, filled, data.dtype), current_df |-> df]
          [] transformation = "one_hot_encoding" ->
               [ok |-> TRUE, frame |-> TRUE, value |-> OneHotEncoding(data, column),
                current_df |-> df]
          [] OTHER ->
               LET r == ProcessColumn(data, column, transformation)
               IN  IF r.ok
                   THEN [ok |-> TRUE, frame |-> FALSE, value |-> r.series, current_df |-> df]
                   ELSE [ok |-> FALSE, error |-> Wrap(r.error), current_df |-> df]

\* ----------------------------------------------------------- uploaded files
None == [none |-> TRUE]
NumVals == {Null, Num(-1), Num(1), Num(2)}
StrVals == {Null, Str("a"), Str("b")}
SeqsOf(S, n) == [1..n -> S]
\* pandas.read_csv type inference for one column
InferDtype(vals) ==
    IF HasStr(vals) THEN "object"
    ELSE IF \E i \in DOMAIN vals : IsNull(vals[i]) THEN "float64"
    ELSE "int64"
\* pandas.read_csv of a file whose records are rows[1], rows[2], ...
ReadCsv(names, rows) ==
    DataFrame([i \in DOMAIN rows |-> i - 1],
              [c \in DOMAIN names |->
                  Column(names[c], InferDtype([i \in DOMAIN rows |-> rows[i][c]]),
                         [i \in DOMAIN rows |-> rows[i][c]])])
\* the records an uploaded file is made of: (age, city)
Records ==
    {<<Num(1), Str("a")>>, <<Num(2), Str("b")>>, <<Num(-1), Str("b")>>,
     <<Null, Str("a")>>, <<Num(2), Null>>}
\* the CSV files a user can upload: a numeric column and a categorical one
\* the ceiling of the one-hot check in the react server (unique_count > 10)
MAX_ONEHOT_CATEGORIES == 10
\* a file with one more distinct value per column than that ceiling
WideDataset ==
    ReadCsv(<<"age", "city">>,
            [i \in 1..(MAX_ONEHOT_CATEGORIES + 1) |-> <<Num(i), Str(StrOrder[i])>>])
Datasets ==
    {ReadCsv(<<"age", "city">>, rows) :
        rows \in {r \in SeqsOf(Records, MaxRows) : \E i \in DOMAIN r : IsStr(r[i][2])}}
    \cup {WideDataset}

MAX_FILE_SIZE_MB == 100

\* a column a request can be computed on exactly
Computable(df, column, transformation) ==
    LET vals == GetCol(df, column).vals
    IN  /\ \A i \in DOMAIN vals : IsNull(vals[i]) \/ IsNum(vals[i]) \/ IsStr(vals[i])
        /\ transformation \in {"label_encoding", "one_hot_encoding"}
              => \A i \in DOMAIN vals : HasStrKey(vals[i])

\* --------------------------------------------- react2: DataProcessor actions
\* DataProcessor.load_data(file): a file over the size limit, a file that
\* does not parse, or a memory check that fails while reading, raise before
\* anything is assigned
\* a size check that also turns away a file of exactly the limit
_check_file_size_inclusive(size_mb) == size_mb >= MAX_FILE_SIZE_MB
\* DataProcessor._check_file_size(file): TRUE when it raises
_check_file_size(size_mb) == size_mb > MAX_FILE_SIZE_MB
load_data_fails(size_mb, parses, memory_ok) ==
    /\ r2_ops < MaxOps
    /\ _check_file_size(size_mb) \/ ~parses \/ ~memory_ok
    /\ r2_ops' = r2_ops + 1
    /\ r2_resp' = [op |-> "load", ok |-> FALSE]
    /\ UNCHANGED <<current_df, original_df, r2_loaded, r2_loads>>
load_data(size_mb, df) ==
    /\ r2_ops < MaxOps
    /\ r2_loads < MaxLoads
    /\ ~_check_file_size(size_mb)
    /\ r2_ops' = r2_ops + 1
    /\ r2_loads' = r2_loads + 1
    /\ current_df' = df
    /\ original_df' = df
    /\ r2_loaded' = df
    /\ r2_resp' = [op |-> "load", ok |-> TRUE]

\* DataProcessor.preview_transformation(column, transformation)
preview_transformation(column, transformation) ==
    /\ r2_ops < MaxOps
    /\ current_df # None
    /\ HasCol(current_df, column)
    /\ Computable(current_df, column, transformation)
    /\ r2_ops' = r2_ops + 1
    /\ LET r == _apply_transformation(current_df, column, transformation)
       IN  /\ current_df' = r.current_df
           /\ r2_resp' = [op |-> "preview",
                          ok |-> r.ok /\ (r.frame => r.value.cols # <<>>)]
    /\ UNCHANGED <<original_df, r2_loaded, r2_loads>>

\* DataProcessor.apply_transformation(column, transformation, new_column_name)
RECURSIVE WriteColumns(_, _, _)
WriteColumns(df, frame, i) ==
    IF i > Len(frame.cols) THEN df
    ELSE WriteColumns(SetCol(df, frame.cols[i].name,
                             Series(frame.idx, frame.cols[i].vals, frame.cols[i].dtype)),
                      frame, i + 1)
apply_transformation(column, transformation, new_column_name) ==
    /\ r2_ops < MaxOps
    /\ current_df # None
    /\ HasCol(current_df, column)
    /\ Computable(current_df, column, transformation)
    /\ r2_ops' = r2_ops + 1
    /\ LET r == _apply_transformation(current_df, column, transformation)
       IN  IF ~r.ok
           THEN /\ current_df' = r.current_df
                /\ r2_resp' = [op |-> "apply", ok |-> FALSE]
           ELSE IF r.frame
           THEN /\ current_df' = WriteColumns(r.current_df, r.value, 1)
                /\ r2_resp' = [op |-> "apply", ok |-> r.value.cols # <<>>]
           ELSE /\ current_df' = SetCol(r.current_df, new_column_name, r.value)
                /\ r2_resp' = [op |-> "apply", ok |-> TRUE]
    /\ UNCHANGED <<original_df, r2_loaded, r2_loads>>

\* DataProcessor.get_summary(columns) and DataProcessor.save_data(columns)
get_summary ==
    /\ r2_ops < MaxOps
    /\ current_df # None
    /\ r2_ops' = r2_ops + 1
    /\ r2_resp' = [op |-> "summary", ok |-> TRUE]
    /\ UNCHANGED <<current_df, original_df, r2_loaded, r2_loads>>
save_data ==
    /\ r2_ops < MaxOps
    /\ current_df # None
    /\ r2_ops' = r2_ops + 1
    /\ r2_resp' = [op |-> "export", ok |-> TRUE]
    /\ UNCHANGED <<current_df, original_df, r2_loaded, r2_loads>>

R2Init ==
    /\ current_df = None
    /\ original_df = None
    /\ r2_loaded = None
    /\ r2_resp = [op |-> "none", ok |-> TRUE]
    /\ r2_ops = 0
    /\ r2_loads = 0

\* column names a /transform request can carry
R2Columns == IF current_df = None THEN {} ELSE Range(ColNames(current_df))
\* file sizes in MB: under the limit, exactly the limit, over the limit
FileSizes == {MAX_FILE_SIZE_MB - 1, MAX_FILE_SIZE_MB, MAX_FILE_SIZE_MB + 1}
R2Load == R2Frame /\ \E size_mb \in FileSizes, df \in Datasets : load_data(size_mb, df)
R2LoadFails ==
    /\ R2Frame
    /\ \E size_mb \in FileSizes, parses \in BOOLEAN,
          memory_ok \in BOOLEAN :
           load_data_fails(size_mb, parses, memory_ok)
R2Preview ==
    /\ R2Frame
    /\ \E column \in R2Columns, transformation \in Transformations :
           preview_transformation(column, transformation)
R2Apply ==
    /\ R2Frame
    /\ \E column \in R2Columns, transformation \in Transformations :
           \E new_column_name \in {column \o "_" \o transformation, column} :
               apply_transformation(column, transformation, new_column_name)
R2Summary == R2Frame /\ get_summary
R2Save == R2Frame /\ save_data
R2Next == R2Load \/ R2LoadFails \/ R2Preview \/ R2Apply \/ R2Summary \/ R2Save

\* ------------------------------------------------ react/functions/functions
\* df[name] = df[column].copy().astype(dtype)
CopyColumn(df, column, name, dtype) ==
    SetCol(df, name, Series(df.idx, GetCol(df, column).vals, dtype))
\* df.loc[mask, name] = values computed from the non-null rows
SetMasked(df, name, F(_)) ==
    LET c == df.cols[ColPos(df, name)]
    IN  DataFrame(df.idx,
                  [df.cols EXCEPT ![ColPos(df, name)] =
                      Column(c.name, c.dtype,
                             [i \in DOMAIN c.vals |->
                                 IF IsNull(c.vals[i]) THEN Null ELSE F(c.vals[i])])])

\* each function returns [df, error, raised]: the frame it returns (or, when
\* it raises, the frame it had already changed in place) and the error
Returned(df, error) == [df |-> df, error |-> error, raised |-> FALSE]
Raised(df) == [df |-> df, error |-> "exception", raised |-> TRUE]
NoError == "None"

\* apply_standardization(df, column)
apply_standardization(df, column) ==
    LET name == column \o "_standardized"
        d1 == CopyColumn(df, column, name, "float64")
        nn == NonNull(GetCol(df, column).vals)
    IN  IF nn = <<>> THEN Raised(d1)
        ELSE Returned(SetMasked(d1, name, LAMBDA v : ZScore(v, Mean(nn), Var(nn))), NoError)

\* apply_minmax(df, column)
apply_minmax(df, column) ==
    LET name == column \o "_minmax"
        d1 == CopyColumn(df, column, name, "float64")
        nn == RSort(NonNull(GetCol(df, column).vals))
        rg == RSub(nn[Len(nn)], nn[1])
    IN  IF nn = <<>> THEN Raised(d1)
        ELSE Returned(SetMasked(d1, name,
                                LAMBDA v : IF rg = Num(0) THEN RSub(v, nn[1])
                                           ELSE RDiv(RSub(v, nn[1]), rg)),
                      NoError)

\* apply_log(df, column)
apply_log(df, column) ==
    LET name == column \o "_log"
        d1 == CopyColumn(df, column, column, "float64")
        d2 == CopyColumn(d1, column, name, "float64")
        vals == GetCol(df, column).vals
    IN  IF \E i \in DOMAIN vals : ~IsNull(vals[i]) /\ RLeq(vals[i], Num(0))
        THEN Returned(d2, "Log transformation requires positive values")
        ELSE Returned(SetMasked(d2, name, LAMBDA v : <<"log1p", v[2], v[3]>>), NoError)

\* apply_label_encoding(df, column)
apply_label_encoding(df, column) ==
    LET name == column \o "_label"
        d1 == CopyColumn(df, column, name, GetCol(df, column).dtype)
        nn == NonNull(GetCol(df, column).vals)
        keys == {StrKey(nn[i]) : i \in DOMAIN nn}
    IN  IF nn = <<>> THEN Raised(d1)
        ELSE Returned(SetMasked(d1, name, LAMBDA v : Num(LabelCode(StrKey(v), keys))), NoError)

\* pandas.get_dummies(series, prefix=prefix, dtype=int): one column per
\* category, in sorted order; a NaN row is 0 in all of them
RECURSIVE SortByKey(_)
SortByKey(S) ==
    IF S = {} THEN <<>>
    ELSE LET m == CHOOSE v \in S : \A w \in S : StrKey(v) <= StrKey(w)
         IN  <<m>> \o SortByKey(S \ {m})
get_dummies(data, prefix) ==
    LET categories == SortByKey(Range(NonNull(data.vals)))
    IN  DataFrame(data.idx,
                  [k \in DOMAIN categories |->
                      Column(prefix \o "_" \o Fmt(categories[k], data.dtype), "int64",
                             [i \in DOMAIN data.vals |->
                                 IF data.vals[i] = categories[k] THEN Num(1) ELSE Num(0)])])

\* apply_onehot_encoding(df, column): the astype('category') is written into
\* df, the result is a new frame pd.concat([df, one_hot], axis=1); the
\* categories keep the dtype of the values they were made from
apply_onehot_encoding(df, column) ==
    LET d1 == CopyColumn(df, column, column, "category")
        one_hot == get_dummies(GetCol(df, column), column)
    IN  DataFrame(d1.idx, d1.cols \o one_hot.cols)

\* remove_nulls(df, column): df.dropna(subset=[column])
remove_nulls(df, column) ==
    LET data == GetCol(df, column)
    IN  Loc(df, SeqMap(LAMBDA e : e[1],
                       SelectSeq([i \in DOMAIN data.idx |-> <<data.idx[i], data.vals[i]>>],
                                 LAMBDA e : ~IsNull(e[2]))))

\* transform_column(df, column, transform_type)
transform_column(df, column, transform_type) ==
    LET dtype == GetCol(df, column).dtype
        is_numeric == IsNumericDtype(dtype)
    IN  IF dtype = "category" THEN Raised(df)
        ELSE IF transform_type = "remove_nulls" THEN Returned(remove_nulls(df, column), NoError)
        ELSE IF is_numeric /\ transform_type = "standardized"
        THEN apply_standardization(df, column)
        ELSE IF is_numeric /\ transform_type = "minmax" THEN apply_minmax(df, column)
        ELSE IF is_numeric /\ transform_type = "log" THEN apply_log(df, column)
        ELSE IF ~is_numeric /\ transform_type = "label" THEN apply_label_encoding(df, column)
        ELSE IF ~is_numeric /\ transform_type = "onehot"
        THEN Returned(apply_onehot_encoding(df, column), NoError)
        ELSE Returned(df, "Invalid transformation " \o transform_type \o " for column type")

\* ------------------------------------------------ react/flask-server/server
\* transform_map: front-end transformation name -> transform_type
TransformMapKeys == {"standardization", "minmax", "log", "label", "onehot", "remove_nulls"}
transform_map(transformation) ==
    IF transformation = "standardization" THEN "standardized" ELSE transformation
\* transformation names a request can carry ('cube' is not in transform_map)
R1Transformations == TransformMapKeys \cup {"cube"}
\* get_unique_values_count(df, column): df[column].nunique()
get_unique_values_count(df, column) == Cardinality(Range(NonNull(GetCol(df, column).vals)))
IsDuplicated(df, column) ==
    Cardinality({i \in DOMAIN df.cols : df.cols[i].name = column}) > 1
\* the request cannot be computed: unknown or ambiguous column, unknown name
R1Raises(df, column, transformation) ==
    \/ ~HasCol(df, column)
    \/ IsDuplicated(df, column)
    \/ transformation \notin TransformMapKeys
R1Computable(df, column) ==
    (df # None /\ HasCol(df, column)) =>
        \A i \in DOMAIN GetCol(df, column).vals :
            LET v == GetCol(df, column).vals[i]
            IN  IF IsNumericDtype(GetCol(df, column).dtype)
                THEN IsNull(v) \/ IsNum(v) ELSE HasStrKey(v)

\* POST /api/upload
upload_file(parses, df) ==
    /\ g_ops < MaxOps
    /\ g_ops' = g_ops + 1
    /\ IF parses
       THEN g_current_df' = df /\ g_resp' = [op |-> "upload", ok |-> TRUE]
       ELSE UNCHANGED g_current_df /\ g_resp' = [op |-> "upload", ok |-> FALSE]

\* DataFrame.head(): the first HEAD_ROWS rows
HEAD_ROWS == 5
head(df) == Loc(df, SubSeq(df.idx, 1, IF Len(df.idx) < HEAD_ROWS THEN Len(df.idx) ELSE HEAD_ROWS))
StartsWith(s, prefix) ==
    Len(s) >= Len(prefix) /\ SubSeq(s, 1, Len(prefix)) = prefix
\* df[names]: the columns of df with these names, in this order
SelectCols(df, names) ==
    DataFrame(df.idx, [k \in DOMAIN names |-> df.cols[ColPos(df, names[k])]])
NoPreview == [ok |-> FALSE, shown |-> None]
\* POST /api/preview_transform: the answer (success, and the transformed
\* columns of the preview table) for a request on the dataset df. The table
\* is made from df.head(), the error is the one of the head's transformation,
\* and the columns shown are looked up by name in the transformed frames
preview_transform_response(df, column, transformation) ==
    IF df = None THEN NoPreview
    ELSE IF R1Raises(df, column, transformation) THEN NoPreview
    ELSE IF /\ transformation = "onehot"
            /\ get_unique_values_count(df, column) > MAX_ONEHOT_CATEGORIES
    THEN NoPreview
    ELSE LET transform_type == transform_map(transformation)
             transformed_preview == transform_column(head(df), column, transform_type)
         IN  IF transformed_preview.raised \/ transformed_preview.error # NoError THEN NoPreview
             ELSE LET transformed_full == transform_column(df, column, transform_type)
                      names == ColNames(transformed_preview.df)
                      transformed_cols ==
                          IF transformation = "onehot"
                          THEN SelectSeq(names, LAMBDA col : StartsWith(col, column \o "_"))
                          ELSE <<column \o "_" \o transform_type>>
                  IN  IF transformed_full.raised THEN NoPreview
                      ELSE IF \E k \in DOMAIN transformed_cols :
                                  \/ ~HasCol(transformed_preview.df, transformed_cols[k])
                                  \/ ~HasCol(transformed_full.df, transformed_cols[k])
                      THEN NoPreview
                      ELSE [ok |-> TRUE,
                            shown |-> SelectCols(transformed_preview.df, transformed_cols)]
preview_transform(column, transformation) ==
    /\ g_ops < MaxOps
    /\ g_ops' = g_ops + 1
    /\ UNCHANGED g_current_df
    /\ g_resp' = [op |-> "preview",
                  ok |-> preview_transform_response(g_current_df, column, transformation).ok]

\* POST /api/transform: current_df, error = transform_column(current_df, ...);
\* the current_df the request leaves, and whether it answers success
transform_response(df, column, transformation) ==
    IF df = None THEN [df |-> df, ok |-> FALSE]
    ELSE IF R1Raises(df, column, transformation) THEN [df |-> df, ok |-> FALSE]
    ELSE IF /\ transformation = "onehot"
            /\ get_unique_values_count(df, column) > MAX_ONEHOT_CATEGORIES
    THEN [df |-> df, ok |-> FALSE]
    ELSE LET r == transform_column(df, column, transform_map(transformation))
         IN  [df |-> r.df, ok |-> ~r.raised /\ r.error = NoError]
transform(column, transformation) ==
    /\ g_ops < MaxOps
    /\ g_ops' = g_ops + 1
    /\ LET r == transform_response(g_current_df, column, transformation)
       IN  /\ g_current_df' = r.df
           /\ g_resp' = [op |-> "transform", ok |-> r.ok]

\* POST /api/save
save_csv ==
    /\ g_ops < MaxOps
    /\ g_ops' = g_ops + 1
    /\ UNCHANGED g_current_df
    /\ g_resp' = [op |-> "save", ok |-> g_current_df # None]

R1Init ==
    /\ g_current_df = None
    /\ g_resp = [op |-> "none", ok |-> TRUE]
    /\ g_ops = 0
R1Columns == IF g_current_df = None THEN {"age"} ELSE Range(ColNames(g_current_df))
R1Upload == R1Frame /\ \E df \in Datasets : upload_file(TRUE, df)
R1UploadFails == R1Frame /\ upload_file(FALSE, None)
R1Preview ==
    /\ R1Frame
    /\ \E column \in R1Columns, transformation \in R1Transformations :
           R1Computable(g_current_df, column) /\ preview_transform(column, transformation)
R1Transform ==
    /\ R1Frame
    /\ \E column \in R1Columns, transformation \in R1Transformations :
           R1Computable(g_current_df, column) /\ transform(column, transformation)
R1Save == R1Frame /\ save_csv
R1Next == R1Upload \/ R1UploadFails \/ R1Preview \/ R1Transform \/ R1Save

\* ------------- react/flask-server: two /api/transform requests in flight
\* app.run(port=5001, debug=True) serves each request on a thread of its own
\* and the handlers take no lock: a thread can be switched out between the
\* read of the global current_df and the assignment to it
CCThreads == {1, 2}
CCRequests == {[column |-> c, transformation |-> t] : c \in {"age", "city"}, t \in TransformMapKeys}
\* the current_df one /api/transform request leaves when it runs alone
transform_outcome(df, column, transformation) ==
    transform_response(df, column, transformation).df
\* remove_nulls (df.dropna) and apply_onehot_encoding (pd.concat) return a
\* new DataFrame; every other branch of transform_column writes into df and
\* returns df itself
ReturnsNewFrame(df, column, transform_type) ==
    \/ transform_type = "remove_nulls"
    \/ transform_type = "onehot" /\ ~IsNumericDtype(GetCol(df, column).dtype)
\* what the call leaves in the DataFrame object it was handed
WrittenInPlace(df, column, transform_type, r) ==
    IF r.raised \/ ~ReturnsNewFrame(df, column, transform_type) THEN r.df
    ELSE IF transform_type = "onehot" THEN CopyColumn(df, column, column, "category")
    ELSE df
\* transform, up to the return of transform_column(current_df, ...): the
\* global is read, the checks and the call run on the object it refers to
CCCall(t) ==
    /\ cc_thr[t].pc = "start"
    /\ LET df == cc_heap[cc_global]
           column == cc_thr[t].column
           transformation == cc_thr[t].transformation
       IN  /\ R1Computable(df, column)
           /\ IF \/ R1Raises(df, column, transformation)
                 \/ /\ transformation = "onehot"
                    /\ get_unique_values_count(df, column) > MAX_ONEHOT_CATEGORIES
              THEN /\ cc_thr' = [cc_thr EXCEPT ![t].pc = "done"]
                   /\ UNCHANGED cc_heap
              ELSE LET transform_type == transform_map(transformation)
                       r == transform_column(df, column, transform_type)
                       fresh == ~r.raised /\ ReturnsNewFrame(df, column, transform_type)
                       written == WrittenInPlace(df, column, transform_type, r)
                   IN  /\ cc_heap' = IF fresh
                                     THEN [cc_heap EXCEPT ![cc_global] = written, ![t + 1] = r.df]
                                     ELSE [cc_heap EXCEPT ![cc_global] = written]
                       /\ cc_thr' = [cc_thr EXCEPT
                                        ![t].pc = IF r.raised THEN "done" ELSE "returned",
                                        ![t].ret = IF fresh THEN t + 1 ELSE cc_global]
    /\ UNCHANGED <<cc_global, cc_loaded>>
\* transform: current_df, error = <the returned pair>
CCStore(t) ==
    /\ cc_thr[t].pc = "returned"
    /\ cc_global' = cc_thr[t].ret
    /\ cc_thr' = [cc_thr EXCEPT ![t].pc = "done"]
    /\ UNCHANGED <<cc_heap, cc_loaded>>
CCIdle ==
    /\ cc_heap = <<>>
    /\ cc_global = 0
    /\ cc_thr = <<>>
    /\ cc_loaded = None
\* a dataset is uploaded and two requests have arrived
CCInit ==
    /\ cc_loaded \in Datasets
    /\ cc_heap = <<cc_loaded, None, None>>
    /\ cc_global = 1
    /\ \E a, b \in CCRequests :
          cc_thr = [t \in CCThreads |->
                       [column |-> IF t = 1 THEN a.column ELSE b.column,
                        transformation |-> IF t = 1 THEN a.transformation ELSE b.transformation,
                        pc |-> "start", ret |-> 0]]
CCCalls == CCFrame /\ \E t \in CCThreads : CCCall(t)
CCStores == CCFrame /\ \E t \in CCThreads : CCStore(t)
CCNext == CCCalls \/ CCStores

\* ------------------- the thread pool of DataProcessor._apply_transformation
Pending == [st |-> "pending"]
Cancelled == [st |-> "cancelled"]
Done(r) == [st |-> "done", r |-> r]
IsDone(f) == f.st = "done"

\* single columns: numeric ones and categorical ones, 0-based labels
ColumnsOfLen(n) ==
    {Series([i \in 1..n |-> i - 1], vals, InferDtype(vals)) :
        vals \in SeqsOf(NumVals, n) \cup {c \in SeqsOf(StrVals, n) : HasStr(c)}}
ExColumns == UNION {ColumnsOfLen(n) : n \in CHUNK_SIZE..MaxLen}

\* pd.concat(list(executor.map(...))): the futures' results in the order of
\* the chunks, whatever order they completed in
GatherAsCompleted(futures, completed) ==
    Ok(PdConcat([k \in DOMAIN completed |-> futures[completed[k]].r.series]))
Gather(futures, completed) ==
    Ok(PdConcat([k \in DOMAIN futures |-> futures[k].r.series]))

\* len(data) <= CHUNK_SIZE: self._process_chunk(data, column, transformation)
ExDirect ==
    /\ ExFrame
    /\ ex_pc = "idle"
    /\ Len(ex_data.vals) <= CHUNK_SIZE
    /\ ex_out' = _process_chunk(ex_data, "column", ex_transformation)
    /\ ex_pc' = "done"
    /\ UNCHANGED <<ex_data, ex_transformation, ex_queue, ex_running, ex_futures, ex_completed>>
\* executor.map submits one task per chunk
ExSubmit ==
    /\ ExFrame
    /\ ex_pc = "idle"
    /\ Len(ex_data.vals) > CHUNK_SIZE
    /\ ex_queue' = [k \in 1..NumChunks(ex_data) |-> k]
    /\ ex_futures' = [k \in 1..NumChunks(ex_data) |-> Pending]
    /\ ex_pc' = "running"
    /\ UNCHANGED <<ex_data, ex_transformation, ex_running, ex_completed, ex_out>>
\* an idle worker thread takes the next task
ExStart ==
    /\ ExFrame
    /\ ex_pc = "running"
    /\ ex_queue # <<>>
    /\ Cardinality(ex_running) < N_WORKERS
    /\ ex_running' = ex_running \cup {Head(ex_queue)}
    /\ ex_queue' = Tail(ex_queue)
    /\ UNCHANGED <<ex_data, ex_transformation, ex_pc, ex_futures, ex_completed, ex_out>>
\* a worker thread finishes _process_chunk on its chunk
ExFinish(k) ==
    /\ k \in ex_running
    /\ ex_futures' = [ex_futures EXCEPT
                         ![k] = Done(_process_chunk(Chunks(ex_data)[k], "column",
                                                    ex_transformation))]
    /\ ex_completed' = Append(ex_completed, k)
    /\ ex_running' = ex_running \ {k}
    /\ UNCHANGED <<ex_data, ex_transformation, ex_pc, ex_queue, ex_out>>
\* list(...) reaches a failed future: the exception propagates and the
\* iterator cancels the futures that have not started
ExRaise ==
    /\ ExFrame
    /\ ex_pc = "running"
    /\ \E k \in DOMAIN ex_futures :
          /\ IsDone(ex_futures[k]) /\ ~ex_futures[k].r.ok
          /\ \A j \in 1..(k - 1) : IsDone(ex_futures[j]) /\ ex_futures[j].r.ok
          /\ ex_out' = Err("Error in transformation '" \o ex_transformation \o "': "
                           \o ex_futures[k].r.error)
    /\ ex_futures' = [k \in DOMAIN ex_futures |->
                         IF \E q \in DOMAIN ex_queue : ex_queue[q] = k
                         THEN Cancelled ELSE ex_futures[k]]
    /\ ex_queue' = <<>>
    /\ ex_pc' = "raising"
    /\ UNCHANGED <<ex_data, ex_transformation, ex_running, ex_completed>>
\* an exception that leaves _apply_transformation while chunk tasks still run
ExRaisedWithoutWaiting ==
    /\ ExFrame
    /\ ex_pc = "raising"
    /\ ex_pc' = "done"
    /\ UNCHANGED <<ex_data, ex_transformation, ex_queue, ex_running, ex_futures,
                   ex_completed, ex_out>>
\* leaving the with block waits for the running tasks, then the exception
\* leaves _apply_transformation
ExRaised ==
    /\ ExFrame
    /\ ex_pc = "raising"
    /\ ex_running = {}
    /\ ex_pc' = "done"
    /\ UNCHANGED <<ex_data, ex_transformation, ex_queue, ex_running, ex_futures,
                   ex_completed, ex_out>>
\* every future has a result: return pd.concat(transformed_chunks)
ExReturn ==
    /\ ExFrame
    /\ ex_pc = "running"
    /\ \A k \in DOMAIN ex_futures : IsDone(ex_futures[k]) /\ ex_futures[k].r.ok
    /\ ex_out' = Gather(ex_futures, ex_completed)
    /\ ex_pc' = "done"
    /\ UNCHANGED <<ex_data, ex_transformation, ex_queue, ex_running, ex_futures, ex_completed>>

ExIdle ==
    /\ ex_data = None
    /\ ex_transformation = "none"
    /\ ex_pc = "off"
    /\ ex_queue = <<>>
    /\ ex_running = {}
    /\ ex_futures = <<>>
    /\ ex_completed = <<>>
    /\ ex_out = None
ExInit ==
    /\ ex_data \in ExColumns
    /\ ex_transformation \in ChunkedTransformations
    /\ ex_pc = "idle"
    /\ ex_queue = <<>>
    /\ ex_running = {}
    /\ ex_futures = <<>>
    /\ ex_completed = <<>>
    /\ ex_out = None
ExWorker == ExFrame /\ \E k \in ex_running : ExFinish(k)
ExNext == ExDirect \/ ExSubmit \/ ExStart \/ ExWorker \/ ExRaise \/ ExRaised \/ ExReturn

\* ------------------------------------ one transformation function, one call
FnColumns == UNION {ColumnsOfLen(n) : n \in 1..MaxLen}
\* DataProcessor._apply_transformation(column, 'one_hot_encoding')
FnOneHotEncoding ==
    /\ FnFrame
    /\ fn_pc = "ready"
    /\ fn_out' = OneHotEncoding(fn_data, "column")
    /\ fn_pc' = "one_hot_encoding"
    /\ UNCHANGED fn_data
\* apply_onehot_encoding(df, column) on a frame holding the one column
FnApplyOnehotEncoding ==
    /\ FnFrame
    /\ fn_pc = "ready"
    /\ fn_out' = apply_onehot_encoding(
                     DataFrame(fn_data.idx, <<Column("column", fn_data.dtype, fn_data.vals)>>),
                     "column")
    /\ fn_pc' = "apply_onehot_encoding"
    /\ UNCHANGED fn_data
FnIdle == fn_data = None /\ fn_pc = "off" /\ fn_out = None
FnInit == fn_data \in FnColumns /\ fn_pc = "ready" /\ fn_out = None
FnNext == FnOneHotEncoding \/ FnApplyOnehotEncoding

\* ------------------------------------------------------------ streamlit
\* the CSV files uploaded to the Streamlit front end: (age, city, city_x)
STRecords ==
    {<<Num(1), Str("a"), Num(1)>>, <<Num(0), Str("b"), Num(1)>>,
     <<Null, Str("b"), Num(2)>>}
STDatasets ==
    {ReadCsv(<<"age", "city", "city_x">>, rows) : rows \in SeqsOf(STRecords, MaxRows)}

\* src/functions.py get_numeric_columns / get_object_columns, and the
\* select_dtypes(...) lists the Transformation page recomputes
SelectDtypes(data, include) ==
    ColNames(DataFrame(data.idx, SelectSeq(data.cols, LAMBDA c : c.dtype \in include)))
get_numeric_columns(data) == SelectDtypes(data, {"int64", "float64"})
get_object_columns(data) == SelectDtypes(data, {"object", "category"})

\* np.log1p(x): -inf at -1, NaN below -1
Log1p(v) ==
    IF IsNull(v) THEN Null
    ELSE IF v = Num(-1) THEN <<"-inf">>
    ELSE IF RLess(v, Num(-1)) THEN Null
    ELSE <<"log1p", v[2], v[3]>>
\* Transformation.prepare_transformation_log: the entry's transformation and
\* column (its timestamp, parameters and statistics are left out)
prepare_transformation_log(name, column) ==
    [transformation |-> name, column |-> column]
\* the transform(data, column) methods of the registered transformations
StandardizationTransform(data, column) ==
    Series(data.idx, StandardScalerFitTransform(GetCol(data, column).vals), "float64")
MinMaxScalingTransform(data, column) ==
    Series(data.idx, MinMaxScalerFitTransform(GetCol(data, column).vals), "float64")
LogTransform(data, column) ==
    Series(data.idx, SeqMap(Log1p, GetCol(data, column).vals), "float64")
LabelEncodingTransform(data, column) ==
    Series(data.idx, LabelEncoderFitTransform(GetCol(data, column).vals), "int64")
\* pd.get_dummies(data[column], prefix=column): indicator columns of dtype bool
OneHotEncodingTransform(data, column) ==
    LET encoded == get_dummies(GetCol(data, column), column)
    IN  DataFrame(encoded.idx,
                  [k \in DOMAIN encoded.cols |->
                      Column(encoded.cols[k].name, "bool", encoded.cols[k].vals)])
NumericTransformations == {"Standardization", "Min-Max Scaling", "Log Transform"}
get_numeric_transformation(name, data, column) ==
    IF name = "Standardization" THEN StandardizationTransform(data, column)
    ELSE IF name = "Min-Max Scaling" THEN MinMaxScalingTransform(data, column)
    ELSE LogTransform(data, column)
\* TransformationRegistry.save_pending_log: the change log after the call
save_pending_log ==
    IF pending_log # None THEN Append(change_log, pending_log) ELSE change_log

\* a column of raw_data the model computes a transformation on exactly
STComputable(column) ==
    /\ HasCol(raw_data, column)
    /\ \A i \in DOMAIN GetCol(raw_data, column).vals :
          HasStrKey(GetCol(raw_data, column).vals[i])

\* Transformation.py 35-36: every run of the page first makes sure that
\* transformed_data exists
PageTransformedData == IF transformed_data = None THEN raw_data ELSE transformed_data
Click(button, feature) == [button |-> button, feature |-> feature]
\* a run of the page that stops at an exception: what it wrote so far stays
STRaises(td) ==
    /\ transformed_data' = td
    /\ UNCHANGED <<raw_data, available_columns, raw_numeric_attrs, raw_object_attrs,
                   change_log, pending_log, st_uploaded>>
STAttrs(data) ==
    /\ available_columns' = ColNames(data)
    /\ raw_numeric_attrs' = get_numeric_columns(data)
    /\ raw_object_attrs' = get_object_columns(data)

\* Input.py 13-18: a file in the uploader is read into raw_data
STUpload(df) ==
    /\ st_ops < MaxClicks
    /\ st_ops' = st_ops + 1
    /\ st_click' = Click("Upload", "")
    /\ raw_data' = df
    /\ st_uploaded' = df
    /\ STAttrs(df)
    /\ UNCHANGED <<transformed_data, change_log, pending_log>>

\* Transformation.py 25-36: the page is opened and no button is clicked
STOpenPage ==
    /\ raw_data # None
    /\ transformed_data = None
    /\ transformed_data' = raw_data
    /\ UNCHANGED <<raw_data, available_columns, raw_numeric_attrs, raw_object_attrs,
                   change_log, pending_log, st_uploaded, st_click, st_ops>>

\* Transformation.py 75-94: Standardize / Min-Max Scale / Log Transform
STNumericButton(name, selected_feature) ==
    /\ st_ops < MaxClicks
    /\ raw_data # None
    /\ selected_feature \in Range(available_columns)
    /\ selected_feature \in Range(raw_numeric_attrs)
    /\ STComputable(selected_feature)
    /\ IsRatSeq(GetCol(raw_data, selected_feature).vals)
    /\ st_ops' = st_ops + 1
    /\ st_click' = Click(name, selected_feature)
    /\ transformed_data' =
           SetCol(PageTransformedData, selected_feature,
                  get_numeric_transformation(name, raw_data, selected_feature))
    /\ pending_log' = prepare_transformation_log(name, selected_feature)
    /\ UNCHANGED <<raw_data, available_columns, raw_numeric_attrs, raw_object_attrs,
                   change_log, st_uploaded>>

\* Transformation.py 96-100: Reset of a numeric feature
STNumericReset(selected_feature) ==
    /\ st_ops < MaxClicks
    /\ raw_data # None
    /\ selected_feature \in Range(available_columns)
    /\ selected_feature \in Range(raw_numeric_attrs)
    /\ st_ops' = st_ops + 1
    /\ st_click' = Click("Reset", selected_feature)
    /\ IF HasCol(raw_data, selected_feature)
       THEN /\ transformed_data' =
                   SetCol(PageTransformedData, selected_feature,
                          GetCol(raw_data, selected_feature))
            /\ pending_log' = None
            /\ UNCHANGED <<raw_data, available_columns, raw_numeric_attrs,
                           raw_object_attrs, change_log, st_uploaded>>
       ELSE STRaises(PageTransformedData)

\* Transformation.py 102-108: Save Transformation of a numeric feature
STNumericSave(selected_feature) ==
    /\ st_ops < MaxClicks
    /\ raw_data # None
    /\ selected_feature \in Range(available_columns)
    /\ selected_feature \in Range(raw_numeric_attrs)
    /\ st_ops' = st_ops + 1
    /\ st_click' = Click("Save Transformation", selected_feature)
    /\ change_log' = save_pending_log
    /\ pending_log' = None
    /\ raw_data' = PageTransformedData
    /\ transformed_data' = PageTransformedData
    /\ UNCHANGED <<available_columns, raw_numeric_attrs, raw_object_attrs, st_uploaded>>

\* Transformation.py 163-168: Label Encode
STLabelEncode(selected_feature) ==
    /\ st_ops < MaxClicks
    /\ raw_data # None
    /\ selected_feature \in Range(available_columns)
    /\ selected_feature \notin Range(raw_numeric_attrs)
    /\ selected_feature \in Range(raw_object_attrs)
    /\ STComputable(selected_feature)
    /\ st_ops' = st_ops + 1
    /\ st_click' = Click("Label Encode", selected_feature)
    /\ transformed_data' =
           SetCol(PageTransformedData, selected_feature,
                  LabelEncodingTransform(raw_data, selected_feature))
    /\ pending_log' = prepare_transformation_log("Label Encoding", selected_feature)
    /\ UNCHANGED <<raw_data, available_columns, raw_numeric_attrs, raw_object_attrs,
                   change_log, st_uploaded>>

\* Transformation.py 170-184: One-Hot Encode
STOneHotEncode(selected_feature) ==
    /\ st_ops < MaxClicks
    /\ raw_data # None
    /\ selected_feature \in Range(available_columns)
    /\ selected_feature \notin Range(raw_numeric_attrs)
    /\ selected_feature \in Range(raw_object_attrs)
    /\ STComputable(selected_feature)
    /\ st_ops' = st_ops + 1
    /\ st_click' = Click("One-Hot Encode", selected_feature)
    /\ LET encoded_data == OneHotEncodingTransform(raw_data, selected_feature)
           added == WriteColumns(PageTransformedData, encoded_data, 1)
           dropped == DropCols(added, {selected_feature})
       IN  IF HasCol(added, selected_feature)
           THEN /\ transformed_data' = dropped
                /\ pending_log' =
                       prepare_transformation_log("One-Hot Encoding", selected_feature)
                /\ STAttrs(dropped)
                /\ UNCHANGED <<raw_data, change_log, st_uploaded>>
           ELSE STRaises(added)

\* Transformation.py 186-199: Reset of a categorical feature
STCategoricalReset(selected_feature) ==
    /\ st_ops < MaxClicks
    /\ raw_data # None
    /\ selected_feature \in Range(available_columns)
    /\ selected_feature \notin Range(raw_numeric_attrs)
    /\ selected_feature \in Range(raw_object_attrs)
    /\ st_ops' = st_ops + 1
    /\ st_click' = Click("Reset", selected_feature)
    /\ LET one_hot_cols ==
               {c \in Range(ColNames(PageTransformedData)) :
                   StartsWith(c, selected_feature \o "_")}
           dropped == DropCols(PageTransformedData, one_hot_cols)
           restored == SetCol(dropped, selected_feature, GetCol(raw_data, selected_feature))
       IN  IF HasCol(raw_data, selected_feature)
           THEN /\ transformed_data' = restored
                /\ pending_log' = None
                /\ STAttrs(restored)
                /\ UNCHANGED <<raw_data, change_log, st_uploaded>>
           ELSE STRaises(dropped)

\* Transformation.py 201-211: Save Transformation of a categorical feature
STCategoricalSave(selected_feature) ==
    /\ st_ops < MaxClicks
    /\ raw_data # None
    /\ selected_feature \in Range(available_columns)
    /\ selected_feature \notin Range(raw_numeric_attrs)
    /\ selected_feature \in Range(raw_object_attrs)
    /\ st_ops' = st_ops + 1
    /\ st_click' = Click("Save Transformation", selected_feature)
    /\ change_log' = save_pending_log
    /\ pending_log' = None
    /\ raw_data' = PageTransformedData
    /\ transformed_data' = PageTransformedData
    /\ STAttrs(PageTransformedData)
    /\ UNCHANGED st_uploaded

\* output.py 51-58: Export Data writes raw_data to a file
STExportData ==
    /\ st_ops < MaxClicks
    /\ raw_data # None
    /\ st_ops' = st_ops + 1
    /\ st_click' = Click("Export Data", "")
    /\ UNCHANGED <<raw_data, transformed_data, available_columns, raw_numeric_attrs,
                   raw_object_attrs, change_log, pending_log, st_uploaded>>

\* output.py 64-85: Export Log
STExportLog ==
    /\ st_ops < MaxClicks
    /\ raw_data # None
    /\ st_ops' = st_ops + 1
    /\ st_click' = Click("Export Log", "")
    /\ change_log' = Append(change_log,
                            [action |-> "Final Export",
                             data_shape |-> <<Len(raw_data.idx), Len(raw_data.cols)>>,
                             columns |-> ColNames(raw_data)])
    /\ UNCHANGED <<raw_data, transformed_data, available_columns, raw_numeric_attrs,
                   raw_object_attrs, pending_log, st_uploaded>>

\* ------------------------------------------------- streamlit: null.py
\* the files uploaded before the null page is used: two columns, nulls in both
NullRecords == {<<a, c>> : a \in {Null, Num(1)}, c \in {Null, Str("a")}}
NullDatasets == {ReadCsv(<<"age", "city">>, rows) : rows \in SeqsOf(NullRecords, MaxRows)}
\* the slider: min_value=0, max_value=100, step=5
Thresholds == {5 * k : k \in 0..20}
\* int(np.ceil(shape[1] * (1 - threshold/100))); the float product and the
\* exact one have the same ceiling for these column counts and thresholds
MinNonNull(ncols, threshold) ==
    LET p == ncols * (100 - threshold)
    IN  IF p % 100 = 0 THEN p \div 100 ELSE (p \div 100) + 1
\* number of non-null cells of row i
NonNullCount(df, i) ==
    Cardinality({k \in DOMAIN df.cols : ~IsNull(df.cols[k].vals[i])})
\* DataFrame.dropna(thresh=n): keeps the rows with at least n non-null cells
DropNaThresh(df, thresh) ==
    Loc(df, SeqMap(LAMBDA e : e[1],
                   SelectSeq([i \in DOMAIN df.idx |-> <<df.idx[i], NonNullCount(df, i)>>],
                             LAMBDA e : e[2] >= thresh)))
\* null.py 151-158: Remove Null Rows
STRemoveNullRows(threshold) ==
    /\ st_ops < MaxClicks
    /\ raw_data # None
    /\ st_ops' = st_ops + 1
    /\ st_click' = Click("Remove Null Rows", "")
    /\ transformed_data' =
           DropNaThresh(raw_data, MinNonNull(Len(raw_data.cols), threshold))
    /\ UNCHANGED <<raw_data, available_columns, raw_numeric_attrs, raw_object_attrs,
                   change_log, pending_log, st_uploaded>>
STNullUploads == STFrame /\ \E df \in NullDatasets : STUpload(df)
STRemovesNullRows == STFrame /\ \E threshold \in Thresholds : STRemoveNullRows(threshold)
NullNext == STNullUploads \/ STRemovesNullRows

STFeatures == Range(available_columns)
STUploads == STFrame /\ \E df \in STDatasets : STUpload(df)
STOpens == STFrame /\ STOpenPage
STNumericButtons ==
    /\ STFrame
    /\ \E name \in NumericTransformations, f \in STFeatures : STNumericButton(name, f)
STNumericResets == STFrame /\ \E f \in STFeatures : STNumericReset(f)
STNumericSaves == STFrame /\ \E f \in STFeatures : STNumericSave(f)
STLabelEncodes == STFrame /\ \E f \in STFeatures : STLabelEncode(f)
STOneHotEncodes == STFrame /\ \E f \in STFeatures : STOneHotEncode(f)
STCategoricalResets == STFrame /\ \E f \in STFeatures : STCategoricalReset(f)
STCategoricalSaves == STFrame /\ \E f \in STFeatures : STCategoricalSave(f)
STExportsData == STFrame /\ STExportData
STExportsLog == STFrame /\ STExportLog
STNext ==
    \/ STUploads \/ STOpens \/ STNumericButtons \/ STNumericResets \/ STNumericSaves
    \/ STLabelEncodes \/ STOneHotEncodes \/ STCategoricalResets \/ STCategoricalSaves
    \/ STExportsData \/ STExportsLog

\* ------------------------------ react2_backup2/flask-server/data_processor
\* data.dropna(): the non-null entries with their labels
DropNa(data) ==
    LET kept == SelectSeq([i \in DOMAIN data.idx |-> <<data.idx[i], data.vals[i]>>],
                          LAMBDA e : ~IsNull(e[2]))
    IN  Series([i \in DOMAIN kept |-> kept[i][1]], [i \in DOMAIN kept |-> kept[i][2]],
               data.dtype)
\* DataProcessor._apply_transformation(column, transformation): every
\* transformation runs on the whole column
_apply_transformation_backup2(df, column, transformation) ==
    LET data == GetCol(df, column)
        Wrap(e) == "Error in transformation '" \o transformation \o "': " \o e
    IN  IF transformation \in {"log", "sqrt", "standard", "minmax", "label_encoding"}
        THEN LET r == _process_chunk(data, column, transformation)
             IN  IF r.ok THEN [ok |-> TRUE, frame |-> FALSE, value |-> r.series]
                 ELSE [ok |-> FALSE, error |-> Wrap(r.error)]
        ELSE IF transformation = "dropna"
        THEN [ok |-> TRUE, frame |-> FALSE, value |-> DropNa(data)]
        ELSE IF transformation \in {"fillna_mean", "fillna_median", "one_hot_encoding"}
        THEN LET r == _apply_transformation(df, column, transformation)
             IN  IF r.ok THEN [ok |-> TRUE, frame |-> r.frame, value |-> r.value]
                 ELSE [ok |-> FALSE, error |-> r.error]
        ELSE [ok |-> FALSE, error |-> Wrap("Invalid transformation")]

\* DataProcessor.load_data(file)
load_data_backup2(df) ==
    /\ b2_ops < MaxOps
    /\ b2_ops' = b2_ops + 1
    /\ b2_current_df' = df
    /\ b2_original_df' = df
    /\ b2_resp' = [op |-> "load", ok |-> TRUE]

\* DataProcessor.preview_transformation(column, transformation)
preview_transformation_backup2(column, transformation) ==
    /\ b2_ops < MaxOps
    /\ b2_current_df # None
    /\ HasCol(b2_current_df, column)
    /\ Computable(b2_current_df, column, transformation)
    /\ b2_ops' = b2_ops + 1
    /\ LET r == _apply_transformation_backup2(b2_current_df, column, transformation)
       IN  b2_resp' = [op |-> "preview", ok |-> r.ok /\ (r.frame => r.value.cols # <<>>)]
    /\ UNCHANGED <<b2_current_df, b2_original_df>>

\* DataProcessor.apply_transformation(column, transformation, new_column_name)
apply_transformation_backup2(column, transformation, new_column_name) ==
    /\ b2_ops < MaxOps
    /\ b2_current_df # None
    /\ HasCol(b2_current_df, column)
    /\ Computable(b2_current_df, column, transformation)
    /\ b2_ops' = b2_ops + 1
    /\ LET r == _apply_transformation_backup2(b2_current_df, column, transformation)
       IN  IF ~r.ok
           THEN /\ UNCHANGED b2_current_df
                /\ b2_resp' = [op |-> "apply", ok |-> FALSE]
           ELSE IF r.frame
           THEN /\ b2_current_df' = WriteColumns(b2_current_df, r.value, 1)
                /\ b2_resp' = [op |-> "apply", ok |-> r.value.cols # <<>>]
           ELSE /\ b2_current_df' = SetCol(b2_current_df, new_column_name, r.value)
                /\ b2_resp' = [op |-> "apply", ok |-> TRUE]
    /\ UNCHANGED b2_original_df

B2Idle ==
    /\ b2_current_df = None
    /\ b2_original_df = None
    /\ b2_resp = [op |-> "none", ok |-> TRUE]
    /\ b2_ops = 0
B2Columns == IF b2_current_df = None THEN {} ELSE Range(ColNames(b2_current_df))
B2Load == B2Frame /\ \E df \in Datasets : load_data_backup2(df)
B2Preview ==
    /\ B2Frame
    /\ \E column \in B2Columns, transformation \in Transformations :
           preview_transformation_backup2(column, transformation)
B2Apply ==
    /\ B2Frame
    /\ \E column \in B2Columns, transformation \in Transformations :
           \E new_column_name \in {column \o "_" \o transformation, column} :
               apply_transformation_backup2(column, transformation, new_column_name)
B2Next == B2Load \/ B2Preview \/ B2Apply

\* ------------------------------------------------------------ specifications
\* main.py 12-26: the session state of a new session
STIdle ==
    /\ raw_data = None
    /\ transformed_data = None
    /\ available_columns = <<>>
    /\ raw_numeric_attrs = <<>>
    /\ raw_object_attrs = <<>>
    /\ change_log = <<>>
    /\ pending_log = None
    /\ st_uploaded = None
    /\ st_click = Click("none", "")
    /\ st_ops = 0

InitR2 == R2Init /\ R1Init /\ STIdle /\ ExIdle /\ FnIdle /\ B2Idle /\ CCIdle
InitR1 == R2Init /\ R1Init /\ STIdle /\ ExIdle /\ FnIdle /\ B2Idle /\ CCIdle
InitExec == R2Init /\ R1Init /\ STIdle /\ ExInit /\ FnIdle /\ B2Idle /\ CCIdle
InitFn == R2Init /\ R1Init /\ STIdle /\ ExIdle /\ FnInit /\ B2Idle /\ CCIdle
InitST == R2Init /\ R1Init /\ STIdle /\ ExIdle /\ FnIdle /\ B2Idle /\ CCIdle
InitB2 == R2Init /\ R1Init /\ STIdle /\ ExIdle /\ FnIdle /\ B2Idle /\ CCIdle
SpecR2 == InitR2 /\ [][R2Next]_vars
SpecR1 == InitR1 /\ [][R1Next]_vars
SpecExec == InitExec /\ [][ExNext]_vars
SpecFn == InitFn /\ [][FnNext]_vars
SpecST == InitST /\ [][STNext]_vars
SpecB2 == InitB2 /\ [][B2Next]_vars
InitNull == R2Init /\ R1Init /\ STIdle /\ ExIdle /\ FnIdle /\ B2Idle /\ CCIdle
SpecNull == InitNull /\ [][NullNext]_vars
InitCC == R2Init /\ R1Init /\ STIdle /\ ExIdle /\ FnIdle /\ B2Idle /\ CCInit
SpecCC == InitCC /\ [][CCNext]_vars

\* ------------------------------------------------------ the catalog (claims)
\* kind of a column, and the kinds each catalog transformation applies to
KindOf(df, column) ==
    IF IsNumericDtype(GetCol(df, column).dtype) THEN "numeric" ELSE "categorical"
Catalog ==
    {"log", "sqrt", "standard", "minmax", "label_encoding", "dropna",
     "fillna_mean", "fillna_median", "one_hot_encoding"}
ApplicableKinds(transformation) ==
    IF transformation = "dropna" THEN {"numeric", "categorical"}
    ELSE IF transformation \in {"label_encoding", "one_hot_encoding"} THEN {"categorical"}
    ELSE {"numeric"}
\* two outcomes of a transformation agree: both fail, or the same Series
SameOutcome(a, b) == a.ok = b.ok /\ (a.ok => a.series = b.series)

\* C1: a preview of a transformation applicable to the column's kind (dropna
\* included) leaves current_df exactly as it was (discard has nothing to undo).
C1_PreviewLeavesCurrent ==
    [][\A column \in R2Columns, transformation \in Catalog :
          (/\ KindOf(current_df, column) \in ApplicableKinds(transformation)
           /\ preview_transformation(column, transformation))
              => current_df' = current_df]_vars

\* C2: a transform request that returns an error leaves the current DataFrame
\* with the columns, column types, rows and values it had before the request.
C2_FailedTransformLeavesCurrent ==
    [][(g_resp'.op \in {"preview", "transform"} /\ g_ops' = g_ops + 1 /\ ~g_resp'.ok)
          => g_current_df' = g_current_df]_vars

\* C6: on a column longer than the chunk size, chunked execution of log, sqrt
\* and label encoding returns what the transformation returns on the whole
\* column, row for row.
C6_ChunkSafeEqualsWhole ==
    (/\ ex_pc = "done"
     /\ Len(ex_data.vals) > CHUNK_SIZE
     /\ ex_transformation \in {"log", "sqrt", "label_encoding"})
        => SameOutcome(ex_out, _process_chunk(ex_data, "column", ex_transformation))

\* C7: on a column longer than the chunk size, standardize and minmax scale
\* with the statistics of the whole column, so the chunked result is the
\* whole-column scaling, row for row.
C7_ScalingUsesGlobalStatistics ==
    (/\ ex_pc = "done"
     /\ Len(ex_data.vals) > CHUNK_SIZE
     /\ ex_transformation \in {"standard", "minmax"})
        => /\ ex_out.ok = _process_chunk(ex_data, "column", ex_transformation).ok
           /\ ex_out.ok =>
                 ex_out.series.vals =
                     _process_chunk(ex_data, "column", ex_transformation).series.vals

\* C8: whatever order the worker threads complete in, the reassembled result
\* is in the original row order: row i of the result carries the label of
\* input row i and the value its chunk's transformation produced for it.
ChunkOf(i) == ((i - 1) \div CHUNK_SIZE) + 1
OffsetOf(i) == ((i - 1) % CHUNK_SIZE) + 1
C8_ReassembledInRowOrder ==
    (ex_pc = "done" /\ Len(ex_data.vals) > CHUNK_SIZE /\ ex_out.ok)
        => /\ Len(ex_out.series.vals) = Len(ex_data.vals)
           /\ ex_out.series.idx = ex_data.idx
           /\ \A i \in DOMAIN ex_data.vals :
                 ex_out.series.vals[i] =
                     _process_chunk(Chunks(ex_data)[ChunkOf(i)], "column",
                                    ex_transformation).series.vals[OffsetOf(i)]
           /\ ex_transformation = "sqrt" =>
                 \A i \in DOMAIN ex_data.vals :
                     ex_out.series.vals[i] =
                         IF IsNull(ex_data.vals[i]) THEN Null
                         ELSE <<"sqrt", ex_data.vals[i][2], ex_data.vals[i][3]>>
\* a run of three chunks whose last chunk completed before an earlier one
C8_Witness ==
    /\ ex_pc = "done" /\ ex_out.ok
    /\ Len(ex_completed) = 3
    /\ ex_completed # <<1, 2, 3>>
    /\ ex_transformation = "sqrt"
    /\ ex_data.vals[1] # ex_data.vals[3]

\* C9: a preview or commit of a catalog transformation whose applicable kinds
\* exclude the column's kind is answered with an error and leaves current_df
\* unchanged.
C9_WrongKindRejected ==
    [][\A column \in R2Columns, transformation \in Catalog :
          (/\ KindOf(current_df, column) \notin ApplicableKinds(transformation)
           /\ \/ preview_transformation(column, transformation)
              \/ \E new_column_name \in {column \o "_" \o transformation, column} :
                    apply_transformation(column, transformation, new_column_name))
              => (~r2_resp'.ok /\ current_df' = current_df)]_vars

\* C10: one-hot encoding a column with K distinct non-null values creates
\* exactly K columns named '<column>_<value>'; a row with a non-null value has
\* 1 in the column of its value and 0 in the others, a null row has 0 in all.
OneHotCreated ==
    IF fn_pc = "apply_onehot_encoding" THEN Tail(fn_out.cols) ELSE fn_out.cols
OneHotValues == Range(NonNull(fn_data.vals))
C10_OneHotColumns ==
    fn_pc \in {"one_hot_encoding", "apply_onehot_encoding"} =>
        /\ Len(OneHotCreated) = Cardinality(OneHotValues)
        /\ {OneHotCreated[k].name : k \in DOMAIN OneHotCreated}
               = {"column_" \o Fmt(v, fn_data.dtype) : v \in OneHotValues}
        /\ \A i \in DOMAIN fn_data.vals, k \in DOMAIN OneHotCreated :
              OneHotCreated[k].vals[i] =
                  IF /\ ~IsNull(fn_data.vals[i])
                     /\ OneHotCreated[k].name = "column_" \o Fmt(fn_data.vals[i], fn_data.dtype)
                  THEN Num(1) ELSE Num(0)
        /\ \A i \in DOMAIN fn_data.vals :
              Cardinality({k \in DOMAIN OneHotCreated : OneHotCreated[k].vals[i] = Num(1)})
                  = IF IsNull(fn_data.vals[i]) THEN 0 ELSE 1
\* a column with two categories and a null, encoded by DataProcessor
C10_Witness ==
    /\ fn_pc = "one_hot_encoding"
    /\ Cardinality(OneHotValues) = 2
    /\ \E i \in DOMAIN fn_data.vals : IsNull(fn_data.vals[i])
    /\ Len(fn_out.cols) = 2

\* C3: once a dataset is loaded, the revert target (raw_data, the original of
\* the session) equals the dataset as loaded in every reachable state: no
\* transformation, Save Transformation, Reset or export changes it.
C3_OriginalNeverChanges ==
    raw_data # None => raw_data = st_uploaded

\* C4: a Reset of a column on which a transformation was committed restores
\* the column to its values in the dataset as loaded, and removes only the
\* columns that transformation created: every other column, one whose name
\* merely starts with '<column>_' included, stays in the table unchanged.
CommittedOn(feature) ==
    \E k \in DOMAIN change_log :
        /\ "column" \in DOMAIN change_log[k]
        /\ change_log[k].column = feature
CreatedFor(feature) ==
    IF HasCol(st_uploaded, feature)
    THEN Range(ColNames(OneHotEncodingTransform(st_uploaded, feature)))
    ELSE {}
C4_ResetRestoresOriginal ==
    [][(/\ st_click'.button = "Reset"
        /\ st_ops' = st_ops + 1
        /\ CommittedOn(st_click'.feature))
          => LET f == st_click'.feature
             IN  /\ HasCol(transformed_data', f)
                 /\ GetCol(transformed_data', f) = GetCol(st_uploaded, f)
                 /\ \A k \in DOMAIN PageTransformedData.cols :
                       LET c == PageTransformedData.cols[k]
                       IN  (c.name # f /\ c.name \notin CreatedFor(f))
                              => c \in Range(transformed_data'.cols)]_vars

\* C5: the change log grows only on a commit: a step that changes it is a
\* Save Transformation that appends the one pending entry to the entries
\* already there; no preview, Reset or export appends an entry.
C5_LogGrowsOnlyOnCommit ==
    [][change_log' # change_log
          => /\ st_click'.button = "Save Transformation"
             /\ change_log' = Append(change_log, pending_log)]_vars

\* C11: a preview or commit of one_hot_encoding on a column with more than 10
\* distinct values is answered with an error and leaves current_df as it was:
\* no one-hot column is added for such a column.
C11_TooManyCategoriesRejected ==
    [][\A column \in R2Columns :
          (/\ get_unique_values_count(current_df, column) > MAX_ONEHOT_CATEGORIES
           /\ \/ preview_transformation(column, "one_hot_encoding")
              \/ \E new_column_name \in {column \o "_one_hot_encoding", column} :
                    apply_transformation(column, "one_hot_encoding", new_column_name))
              => (~r2_resp'.ok /\ current_df' = current_df)]_vars

\* C12: a commit of one_hot_encoding on a categorical column puts the K
\* created columns into current_df and removes the source column from it.
C12_OneHotCommitDropsSource ==
    [][\A column \in R2Columns :
          (/\ KindOf(current_df, column) = "categorical"
           /\ \E new_column_name \in {column \o "_one_hot_encoding", column} :
                 apply_transformation(column, "one_hot_encoding", new_column_name)
           /\ r2_resp'.ok)
              => /\ \A v \in Range(NonNull(GetCol(current_df, column).vals)) :
                       HasCol(current_df', column \o "_" \o Fmt(v, "object"))
                 /\ ~HasCol(current_df', column)]_vars

\* C13: a commit of dropna on a column leaves a table with as many rows as
\* before minus the nulls of that column; no remaining row holds a null in
\* the column or in the column the commit derived from it, and the other
\* columns keep their values in the surviving rows.
NullCount(df, column) ==
    Cardinality({i \in DOMAIN df.idx : IsNull(GetCol(df, column).vals[i])})
C13_DropnaRemovesNullRows ==
    [][\A column \in B2Columns :
          \A new_column_name \in {column \o "_dropna", column} :
              (/\ apply_transformation_backup2(column, "dropna", new_column_name)
               /\ b2_resp'.ok)
                  => /\ Len(b2_current_df'.idx) =
                            Len(b2_current_df.idx) - NullCount(b2_current_df, column)
                     /\ NullCount(b2_current_df', column) = 0
                     /\ NullCount(b2_current_df', new_column_name) = 0
                     /\ \A c \in B2Columns \ {column, new_column_name} :
                           GetCol(b2_current_df', c) =
                               GetCol(Loc(b2_current_df, b2_current_df'.idx), c)]_vars

\* the non-null values of the column a run works on
ExNonNull == NonNull(ex_data.vals)
ExNumeric == ex_data.dtype # "object"

\* C14: standardize on a numeric column whose non-null values are all equal
\* (zero variance) ends with an error: it never returns a value sequence.
C14_ZeroVarianceRejected ==
    (/\ ex_pc = "done"
     /\ ex_transformation = "standard"
     /\ ExNumeric
     /\ ExNonNull # <<>>
     /\ \A i, j \in DOMAIN ExNonNull : ExNonNull[i] = ExNonNull[j])
        => ~ex_out.ok

\* C15: minmax on a numeric column whose maximum equals its minimum ends with
\* an error; on every other numeric column it returns (x - min) / (max - min)
\* for every non-null x.
C15_MinMaxRange ==
    (/\ ex_pc = "done"
     /\ ex_transformation = "minmax"
     /\ ExNumeric
     /\ ExNonNull # <<>>)
        => LET sorted == RSort(ExNonNull)
               mn == sorted[1]
               mx == sorted[Len(sorted)]
           IN  IF mx = mn THEN ~ex_out.ok
               ELSE /\ ex_out.ok
                    /\ \A i \in DOMAIN ex_data.vals :
                          ex_out.series.vals[i] =
                              IF IsNull(ex_data.vals[i]) THEN Null
                              ELSE RDiv(RSub(ex_data.vals[i], mn), RSub(mx, mn))

\* C17: label encoding gives the K distinct non-null values of a column the
\* codes 0..K-1, equal values the same code and different values different
\* codes, and leaves every null position null.
C17_LabelCodesDenseNullsStay ==
    (ex_pc = "done" /\ ex_transformation = "label_encoding")
        => /\ ex_out.ok
           /\ \A i \in DOMAIN ex_data.vals :
                 IsNull(ex_data.vals[i]) <=> IsNull(ex_out.series.vals[i])
           /\ {ex_out.series.vals[i] : i \in {j \in DOMAIN ex_data.vals : ~IsNull(ex_data.vals[j])}}
                  = {Num(k) : k \in 0..(Cardinality(Range(ExNonNull)) - 1)}
           /\ \A i, j \in DOMAIN ex_data.vals :
                 (~IsNull(ex_data.vals[i]) /\ ~IsNull(ex_data.vals[j]))
                     => ((ex_data.vals[i] = ex_data.vals[j])
                            <=> (ex_out.series.vals[i] = ex_out.series.vals[j]))

\* C16: the log transformation fails whenever the column holds a non-null
\* value that is zero or negative, and then produces no transformed values:
\* a Log Transform click on such a feature leaves transformed_data and the
\* pending log entry as they were.
C16_LogRejectsNonPositive ==
    [][(/\ st_ops' = st_ops + 1
        /\ st_click'.button = "Log Transform"
        /\ \E i \in DOMAIN raw_data.idx :
              LET v == GetCol(raw_data, st_click'.feature).vals[i]
              IN  ~IsNull(v) /\ RLeq(v, Num(0)))
           => /\ transformed_data' \in {transformed_data, PageTransformedData}
              /\ pending_log' = pending_log]_vars

\* C19: a load that is rejected (file over 100 MB, memory over the limit
\* while reading, or a parse error) installs nothing: current_df and
\* original_df keep the values they had before the call; and a file of at
\* most 100 MB that parses and passes the memory checks is never rejected.
C19_RejectedLoadInstallsNothing ==
    [][/\ (r2_ops' = r2_ops + 1 /\ r2_resp'.op = "load" /\ ~r2_resp'.ok)
              => (current_df' = current_df /\ original_df' = original_df)
       /\ \A size_mb \in FileSizes :
              load_data_fails(size_mb, TRUE, TRUE) => size_mb > MAX_FILE_SIZE_MB]_vars
\* a load was rejected while a dataset loaded earlier is installed
C19_Witness ==
    /\ r2_resp.op = "load"
    /\ ~r2_resp.ok
    /\ current_df # None
    /\ original_df # None

\* C18: loading a new file replaces the session wholesale: after the upload
\* of a different file the working copy is absent or equal to the newly
\* loaded dataset, and no pending log entry of the previous dataset is held.
C18_LoadReplacesSession ==
    [][(/\ st_ops' = st_ops + 1
        /\ st_click'.button = "Upload"
        /\ st_uploaded # None
        /\ st_uploaded' # st_uploaded)
           => /\ raw_data' = st_uploaded'
              /\ transformed_data' \in {None, raw_data'}
              /\ pending_log' = None]_vars

\* C20: an export is idempotent: an export invoked a second time in
\* succession leaves the session (the data, the working copy and the change
\* log) the same as invoking it once.
C20_ExportIdempotent ==
    [][(/\ st_ops' = st_ops + 1
        /\ st_click.button \in {"Export Data", "Export Log"}
        /\ st_click'.button = st_click.button)
           => /\ raw_data' = raw_data
              /\ transformed_data' = transformed_data
              /\ change_log' = change_log]_vars

\* C21: two transform requests handled concurrently against the global
\* dataset leave a current_df equal to the result of executing the two
\* requests one after the other in some order: no committed column or row
\* filter is lost.
CCSerial(first, second) ==
    transform_outcome(transform_outcome(cc_loaded, cc_thr[first].column,
                                        cc_thr[first].transformation),
                      cc_thr[second].column, cc_thr[second].transformation)
C21_ConcurrentTransformsSerializable ==
    (cc_thr # <<>> /\ \A t \in CCThreads : cc_thr[t].pc = "done")
        => cc_heap[cc_global] \in {CCSerial(1, 2), CCSerial(2, 1)}

\* C22: preview and commit perform the same computation: for the same
\* column, transformation and current dataset a preview reports a failure
\* exactly when the commit would fail, and when both succeed the values the
\* preview shows for a row are the values the commit writes for that row.
C22_PreviewMatchesCommit ==
    [][\A column \in R1Columns, transformation \in R1Transformations :
          (g_current_df # None /\ preview_transform(column, transformation))
              => LET shows == preview_transform_response(g_current_df, column, transformation)
                     commits == transform_response(g_current_df, column, transformation)
                 IN  /\ shows.ok <=> commits.ok
                     /\ shows.ok =>
                           \A k \in DOMAIN shows.shown.cols :
                               LET col == shows.shown.cols[k]
                               IN  /\ HasCol(commits.df, col.name)
                                   /\ \A i \in DOMAIN col.vals :
                                         col.vals[i] = GetCol(commits.df, col.name).vals[i]]_vars

\* C23: all columns of current_df share its row index, and the set of rows of
\* current_df changes only in a load or in a successful commit: a preview or
\* a failed operation never changes the set of rows.
C23_RowsChangeOnlyOnCommit ==
    [][(current_df # None /\ current_df' # None)
          => /\ \A k \in DOMAIN current_df'.cols :
                   Len(current_df'.cols[k].vals) = Len(current_df'.idx)
             /\ current_df'.idx # current_df.idx
                   => \/ r2_resp'.op = "load"
                      \/ r2_resp'.op = "apply" /\ r2_resp'.ok]_vars

\* C24: the column-kind map of the session (available_columns and the
\* numeric / categorical column lists) covers exactly the columns of the
\* committed dataset and gives each the kind of its committed values, in
\* every state: it never reflects an uncommitted preview.
C24_ColumnKindsMatchCommitted ==
    raw_data # None
        => /\ available_columns = ColNames(raw_data)
           /\ raw_numeric_attrs = get_numeric_columns(raw_data)
           /\ raw_object_attrs = get_object_columns(raw_data)

\* C30: every name in available_columns, raw_numeric_attrs and
\* raw_object_attrs is a column of raw_data, so the selected feature can
\* always be read from raw_data.
C30_ListedColumnsExist ==
    raw_data # None
        => \A name \in Range(available_columns) \cup Range(raw_numeric_attrs)
                           \cup Range(raw_object_attrs) :
               HasCol(raw_data, name)

\* a chunked run has returned, and the transformation fails on some chunk
ExChunkFailed ==
    /\ ex_pc = "done"
    /\ Len(ex_data.vals) > CHUNK_SIZE
    /\ \E k \in 1..NumChunks(ex_data) :
          ~_process_chunk(Chunks(ex_data)[k], "column", ex_transformation).ok
\* C25 (as stated): when the transformation fails on a chunk the whole
\* operation fails, no chunk's output is returned, and the call returns only
\* after every dispatched chunk task has run to completion or failure.
C25_AllChunkTasksRan ==
    ExChunkFailed
        => /\ ~ex_out.ok
           /\ ex_running = {}
           /\ \A k \in DOMAIN ex_futures : IsDone(ex_futures[k])
\* C25 (amended): when the transformation fails on a chunk the whole
\* operation fails, no chunk's output is returned, and the call returns only
\* after every chunk task that was started has run to completion or failure;
\* a task not yet started when the failure is seen is cancelled and never runs.
C25_StartedChunkTasksRan ==
    ExChunkFailed
        => /\ ~ex_out.ok
           /\ "series" \notin DOMAIN ex_out
           /\ ex_running = {}
           /\ ex_queue = <<>>
           /\ \A k \in DOMAIN ex_futures :
                 \/ IsDone(ex_futures[k])
                 \/ ex_futures[k] = Cancelled /\ k \notin Range(ex_completed)
\* a failed chunked run in which one chunk had succeeded, one had failed and
\* one was cancelled before it started
C25_Witness ==
    /\ ExChunkFailed
    /\ ~ex_out.ok
    /\ \E k \in DOMAIN ex_futures : IsDone(ex_futures[k]) /\ ex_futures[k].r.ok
    /\ \E k \in DOMAIN ex_futures : IsDone(ex_futures[k]) /\ ~ex_futures[k].r.ok
    /\ \E k \in DOMAIN ex_futures : ex_futures[k] = Cancelled

\* C27: a preview or apply request naming a transformation that is not in
\* the catalog is answered with an error and leaves current_df as it was: no
\* column is added, the request is never treated as an identity.
C27_UnknownTransformationRejected ==
    [][\A column \in R2Columns, transformation \in Transformations \ Catalog :
          (\/ preview_transformation(column, transformation)
           \/ \E new_column_name \in {column \o "_" \o transformation, column} :
                 apply_transformation(column, transformation, new_column_name))
              => (~r2_resp'.ok /\ current_df' = current_df)]_vars

\* C28: a successful commit of a transformation that does not filter rows
\* changes only the columns it creates: every column that was in current_df
\* before the commit (the source column too, unless it is a one-hot source
\* that is dropped) keeps its values and its type, whatever new column name
\* the request carries.
C28_CommitKeepsExistingColumns ==
    [][(r2_resp'.op = "apply" /\ r2_resp'.ok /\ r2_ops' = r2_ops + 1)
          => \A column \in R2Columns, transformation \in Transformations \ {"dropna"} :
                \A new_column_name \in {column \o "_" \o transformation, column} :
                    apply_transformation(column, transformation, new_column_name)
                        => \A k \in DOMAIN current_df.cols :
                              LET c == current_df.cols[k]
                              IN  \/ /\ transformation = "one_hot_encoding"
                                     /\ c.name = column
                                     /\ ~HasCol(current_df', column)
                                  \/ /\ HasCol(current_df', c.name)
                                     /\ GetCol(current_df', c.name).vals = c.vals
                                     /\ GetCol(current_df', c.name).dtype = c.dtype]_vars

\* C26: Remove Null Rows with threshold X on a dataset with C columns
\* removes exactly the rows that have nulls in at least X% of the columns (a
\* row with n nulls is removed iff 100 * n >= X * C) and keeps every other row.
C26_RemovesRowsAtThreshold ==
    [][\A threshold \in Thresholds :
          STRemoveNullRows(threshold)
              => \A i \in DOMAIN raw_data.idx :
                    LET ncols == Len(raw_data.cols)
                        nulls == ncols - NonNullCount(raw_data, i)
                        removed == raw_data.idx[i] \notin Range(transformed_data'.idx)
                    IN  removed <=> (100 * nulls >= threshold * ncols)]_vars

\* C29: every column whose committed values (raw_data) differ after a Save
\* from the values before it has a change-log entry for that column appended
\* by that Save: a Save never commits a transformation without a log entry.
C29_SaveLogsEveryCommittedChange ==
    [][(st_ops' = st_ops + 1 /\ st_click'.button = "Save Transformation")
          => \A k \in DOMAIN raw_data.cols :
                LET c == raw_data.cols[k]
                    changed == \/ ~HasCol(raw_data', c.name)
                               \/ GetCol(raw_data', c.name).vals # c.vals
                IN  changed
                       => /\ Len(change_log') = Len(change_log) + 1
                          /\ "column" \in DOMAIN change_log'[Len(change_log')]
                          /\ change_log'[Len(change_log')].column = c.name]_vars
====
